---- MODULE Spec2Model ----
(***************************************************************************)
(* Model of the taskflow-api Task resource: the Task table (tasks/models), *)
(* the TaskSerializer codec (tasks/serializers) and the TaskViewSet CRUD   *)
(* endpoints guarded by IsAuthenticated (tasks/views).                     *)
(*                                                                         *)
(* Strings are sequences of one-character strings, so that stripping and   *)
(* formatting are computed.  An absent user reference is NoUser, an absent *)
(* date is the empty sequence, and a request body is a function from the   *)
(* field names it carries to their values.  resp holds the last operation  *)
(* and its response.  Spec composes every operation with every input;      *)
(* SpecCodec, SpecRef and SpecTime are the same operations over narrower   *)
(* inputs (bodies, references, timestamps).                                *)
(***************************************************************************)
EXTENDS Integers, Sequences, FiniteSets, TLC

VARIABLES users, nextUserId, tasks, nextTaskId, clock, resp

vars == <<users, nextUserId, tasks, nextTaskId, clock, resp>>

(* ---------------- bounds ---------------- *)
MaxUsers == 2
MaxTasks == 2
MaxClock == 1

(* ---------------- strings as character sequences ---------------- *)
TODO == <<"T", "O", "D", "O">>
IN_PROGRESS == <<"I", "N", "_", "P", "R", "O", "G", "R", "E", "S", "S">>
DONE == <<"D", "O", "N", "E">>
LOW == <<"L", "O", "W">>
MEDIUM == <<"M", "E", "D", "I", "U", "M">>
HIGH == <<"H", "I", "G", "H">>

STATUS_CHOICES == {TODO, IN_PROGRESS, DONE}
PRIORITY_CHOICES == {LOW, MEDIUM, HIGH}
TITLE_MAX_LENGTH == 200

NoUser == 0
NoDate == <<>>
Anonymous == 0

(* ---------------- serializer field decoding ---------------- *)
RECURSIVE LStrip(_)
LStrip(s) == IF s = <<>> \/ Head(s) # " " THEN s ELSE LStrip(Tail(s))

RECURSIVE RStrip(_)
RStrip(s) == IF s = <<>> \/ s[Len(s)] # " " THEN s ELSE RStrip(SubSeq(s, 1, Len(s) - 1))

Strip(s) == RStrip(LStrip(s))

DaysInMonth(y, m) ==
    IF m \in {4, 6, 9, 11} THEN 30
    ELSE IF m = 2 THEN (IF (y % 4 = 0 /\ y % 100 # 0) \/ y % 400 = 0 THEN 29 ELSE 28)
    ELSE 31

ValidDate(d) ==
    \/ d = NoDate
    \/ /\ Len(d) = 3
       /\ d[2] \in 1..12
       /\ d[3] \in 1..DaysInMonth(d[1], d[2])

Has(b, f) == f \in DOMAIN b

TitleErrors(b, partial) ==
    IF ~Has(b, "title") THEN ~partial
    ELSE \/ Strip(b.title) = <<>>
         \/ Len(Strip(b.title)) > TITLE_MAX_LENGTH

StatusErrors_Unchecked(b) == FALSE

StatusErrors(b) == Has(b, "status") /\ b.status \notin STATUS_CHOICES

PriorityErrors(b) == Has(b, "priority") /\ b.priority \notin PRIORITY_CHOICES

DueDateErrors(b) == Has(b, "due_date") /\ ~ValidDate(b.due_date)

Errors(b, partial) ==
    {f \in {"title"} : TitleErrors(b, partial)}
        \cup {f \in {"status"} : StatusErrors(b)}
        \cup {f \in {"priority"} : PriorityErrors(b)}
        \cup {f \in {"due_date"} : DueDateErrors(b)}

IsValid(b, partial) == Errors(b, partial) = {}

WritableFields_WithCreatedBy ==
    {"title", "description", "status", "priority", "due_date", "created_by"}

WritableFields == {"title", "description", "status", "priority", "due_date"}

DecodeField(b, f) ==
    IF f \in {"title", "description"} THEN Strip(b[f]) ELSE b[f]

ValidatedData(b) ==
    [f \in (DOMAIN b) \cap WritableFields |-> DecodeField(b, f)]

(* ---------------- model defaults and ORM save ---------------- *)
FieldDefault(f) ==
    CASE f = "title" -> <<>>
      [] f = "description" -> <<>>
      [] f = "status" -> TODO
      [] f = "priority" -> MEDIUM
      [] f = "due_date" -> NoDate

Val(v, f) == IF f \in DOMAIN v THEN v[f] ELSE FieldDefault(f)

NewTask(id, v, now1, now2) ==
    [id |-> id,
     title |-> Val(v, "title"),
     description |-> Val(v, "description"),
     status |-> Val(v, "status"),
     priority |-> Val(v, "priority"),
     assigned_to |-> NoUser,
     created_by |-> v.created_by,
     created_at |-> now1,
     updated_at |-> now2,
     due_date |-> Val(v, "due_date")]

Merge(t, v) ==
    [f \in DOMAIN t |-> IF f \in DOMAIN v THEN v[f] ELSE t[f]]

SaveExisting_NoAutoNow(t, now) == t

SaveExisting(t, now) == [t EXCEPT !.updated_at = now]

TaskStr_NoSpace(t) == t.title \o <<"(">> \o t.status \o <<")">>

TaskStr(t) == t.title \o <<" ", "(">> \o t.status \o <<")">>

(* ---------------- encoding and default ordering ---------------- *)
EncodeUser(u) == IF u = NoUser THEN <<>> ELSE <<[id |-> u]>>

Encode(t) ==
    [id |-> t.id, title |-> t.title, description |-> t.description,
     status |-> t.status, priority |-> t.priority,
     assigned_to |-> EncodeUser(t.assigned_to),
     created_by |-> EncodeUser(t.created_by),
     created_at |-> t.created_at, updated_at |-> t.updated_at,
     due_date |-> t.due_date]

IsOrdering_ByUpdatedAt(s, store) ==
    /\ Len(s) = Cardinality(DOMAIN store)
    /\ {s[i] : i \in 1..Len(s)} = DOMAIN store
    /\ \A i \in 1..(Len(s) - 1) : store[s[i]].updated_at >= store[s[i + 1]].updated_at

IsOrdering(s, store) ==
    /\ Len(s) = Cardinality(DOMAIN store)
    /\ {s[i] : i \in 1..Len(s)} = DOMAIN store
    /\ \A i \in 1..(Len(s) - 1) : store[s[i]].created_at >= store[s[i + 1]].created_at

Orderings(store) ==
    {s \in UNION {[1..n -> DOMAIN store] : n \in {Cardinality(DOMAIN store)}} :
        IsOrdering(s, store)}

IsAuthenticated_AllowAny(caller) == TRUE

IsAuthenticated(caller) == caller # Anonymous /\ caller \in users

Response(op, status, body) == [op |-> op, status |-> status, body |-> body]

(* ---------------- request inputs ---------------- *)
MyTask == <<"M", "y", " ", "T", "a", "s", "k">>
PaddedTitle == <<" ", "T", " ">>
BlankTitle == <<" ">>
LongTitle == [i \in 1..(TITLE_MAX_LENGTH + 1) |-> "x"]
PaddedDescription == <<"d", " ">>
BogusStatus == <<"B", "O", "G", "U", "S">>
BogusPriority == <<"U", "R", "G", "E", "N", "T">>
GoodDate == <<2026, 2, 28>>
BadDate == <<2026, 2, 30>>

MinimalBody == [title |-> MyTask]

FullBody ==
    [title |-> PaddedTitle, description |-> PaddedDescription, status |-> IN_PROGRESS,
     priority |-> HIGH, due_date |-> GoodDate, assigned_to |-> 1, created_by |-> 2,
     created_at |-> MaxClock + 1, updated_at |-> MaxClock + 1]

ReadOnlyBody ==
    [id |-> MaxTasks + 1, created_by |-> 2, created_at |-> MaxClock + 1,
     updated_at |-> MaxClock + 1]

InvalidBodies ==
    { [title |-> MyTask, status |-> BogusStatus],
      [title |-> MyTask, priority |-> BogusPriority],
      [title |-> BlankTitle],
      [title |-> LongTitle, due_date |-> BadDate] }

Bodies == {MinimalBody, FullBody, ReadOnlyBody} \cup InvalidBodies

Callers == {Anonymous} \cup (1..MaxUsers)
TaskIds == 1..MaxTasks

(* ---------------- initial state ---------------- *)
Init ==
    /\ users = {}
    /\ nextUserId = 1
    /\ tasks = << >>
    /\ nextTaskId = 1
    /\ clock = 0
    /\ resp = Response("none", "none", <<>>)

(* ---------------- environment ---------------- *)
Tick ==
    /\ clock < MaxClock
    /\ clock' = clock + 1
    /\ resp' = Response("tick", "none", <<>>)
    /\ UNCHANGED <<users, nextUserId, tasks, nextTaskId>>

CreateUser ==
    /\ nextUserId <= MaxUsers
    /\ users' = users \cup {nextUserId}
    /\ nextUserId' = nextUserId + 1
    /\ resp' = Response("create_user", "none", <<>>)
    /\ UNCHANGED <<tasks, nextTaskId, clock>>

AfterUserDelete_NoSetNull(store, u) ==
    [i \in {j \in DOMAIN store : store[j].created_by # u} |-> store[i]]

AfterUserDelete(store, u) ==
    [i \in {j \in DOMAIN store : store[j].created_by # u} |->
        IF store[i].assigned_to = u
        THEN [store[i] EXCEPT !.assigned_to = NoUser]
        ELSE store[i]]

DeleteUser(u) ==
    /\ u \in users
    /\ users' = users \ {u}
    /\ tasks' = AfterUserDelete(tasks, u)
    /\ resp' = Response("delete_user", "none", <<>>)
    /\ UNCHANGED <<nextUserId, nextTaskId, clock>>

SaveAssigned(id, u) ==
    /\ id \in DOMAIN tasks
    /\ u \in users \cup {NoUser}
    /\ tasks' = [tasks EXCEPT ![id] = SaveExisting([@ EXCEPT !.assigned_to = u], clock)]
    /\ resp' = Response("save_assigned", "none", <<>>)
    /\ UNCHANGED <<users, nextUserId, nextTaskId, clock>>

(* ---------------- endpoints ---------------- *)
PerformCreate_Missing(v, caller) ==
    [f \in (DOMAIN v) \cup {"created_by"} |-> IF f = "created_by" THEN NoUser ELSE v[f]]

PerformCreate(v, caller) ==
    [f \in (DOMAIN v) \cup {"created_by"} |-> IF f = "created_by" THEN caller ELSE v[f]]

UpdatedTask(t, b, now) == SaveExisting(Merge(t, ValidatedData(b)), now)

ListStatus(caller) == IF ~IsAuthenticated(caller) THEN "Unauthorized" ELSE "OK"

CreateStatus(caller, b) ==
    IF ~IsAuthenticated(caller) THEN "Unauthorized"
    ELSE IF ~IsValid(b, FALSE) THEN "ValidationError"
    ELSE "Created"

RetrieveStatus(caller, id) ==
    IF ~IsAuthenticated(caller) THEN "Unauthorized"
    ELSE IF id \notin DOMAIN tasks THEN "NotFound"
    ELSE "OK"

UpdateStatus(caller, id, b, partial) ==
    IF ~IsAuthenticated(caller) THEN "Unauthorized"
    ELSE IF id \notin DOMAIN tasks THEN "NotFound"
    ELSE IF ~IsValid(b, partial) THEN "ValidationError"
    ELSE "OK"

DestroyStatus_Idempotent(caller, id) ==
    IF ~IsAuthenticated(caller) THEN "Unauthorized" ELSE "NoContent"

DestroyStatus(caller, id) ==
    IF ~IsAuthenticated(caller) THEN "Unauthorized"
    ELSE IF id \notin DOMAIN tasks THEN "NotFound"
    ELSE "NoContent"

List(caller) ==
    /\ IF ListStatus(caller) = "OK"
       THEN \E s \in Orderings(tasks) :
                resp' = Response("LIST", "OK", [i \in 1..Len(s) |-> Encode(tasks[s[i]])])
       ELSE resp' = Response("LIST", ListStatus(caller), <<>>)
    /\ UNCHANGED <<users, nextUserId, tasks, nextTaskId, clock>>

Create(caller, b, d) ==
    /\ IF CreateStatus(caller, b) = "Created"
       THEN LET t == NewTask(nextTaskId, PerformCreate(ValidatedData(b), caller),
                                 clock, clock + d)
            IN /\ nextTaskId <= MaxTasks
               /\ clock + d <= MaxClock
               /\ tasks' = [i \in (DOMAIN tasks) \cup {nextTaskId} |->
                               IF i = nextTaskId THEN t ELSE tasks[i]]
               /\ nextTaskId' = nextTaskId + 1
               /\ clock' = clock + d
               /\ resp' = Response("CREATE", "Created", <<Encode(t)>>)
       ELSE /\ resp' = Response("CREATE", CreateStatus(caller, b),
                                 IF CreateStatus(caller, b) = "ValidationError"
                                 THEN <<Errors(b, FALSE)>> ELSE <<>>)
            /\ UNCHANGED <<tasks, nextTaskId, clock>>
    /\ UNCHANGED <<users, nextUserId>>

Retrieve(caller, id) ==
    /\ IF RetrieveStatus(caller, id) = "OK"
       THEN resp' = Response("GET", "OK", <<Encode(tasks[id])>>)
       ELSE resp' = Response("GET", RetrieveStatus(caller, id), <<>>)
    /\ UNCHANGED <<users, nextUserId, tasks, nextTaskId, clock>>

Update(caller, id, b, partial) ==
    /\ IF UpdateStatus(caller, id, b, partial) = "OK"
       THEN LET t == UpdatedTask(tasks[id], b, clock)
            IN /\ tasks' = [tasks EXCEPT ![id] = t]
               /\ resp' = Response("UPDATE", "OK", <<Encode(t)>>)
       ELSE /\ resp' = Response("UPDATE", UpdateStatus(caller, id, b, partial),
                                 IF UpdateStatus(caller, id, b, partial) = "ValidationError"
                                 THEN <<Errors(b, partial)>> ELSE <<>>)
            /\ UNCHANGED tasks
    /\ UNCHANGED <<users, nextUserId, nextTaskId, clock>>

Destroy(caller, id) ==
    /\ IF DestroyStatus(caller, id) = "NoContent"
       THEN /\ tasks' = [i \in (DOMAIN tasks) \ {id} |-> tasks[i]]
            /\ resp' = Response("DELETE", "NoContent", <<>>)
       ELSE /\ resp' = Response("DELETE", DestroyStatus(caller, id), <<>>)
            /\ UNCHANGED tasks
    /\ UNCHANGED <<users, nextUserId, nextTaskId, clock>>

StrTask(id) ==
    /\ id \in DOMAIN tasks
    /\ resp' = Response("STR", "none", <<[id |-> id, str |-> TaskStr(tasks[id])]>>)
    /\ UNCHANGED <<users, nextUserId, tasks, nextTaskId, clock>>

Next ==
    \/ Tick
    \/ CreateUser
    \/ \E u \in 1..MaxUsers : DeleteUser(u)
    \/ \E id \in TaskIds, u \in 0..MaxUsers : SaveAssigned(id, u)
    \/ \E c \in Callers : List(c)
    \/ \E c \in Callers, b \in Bodies, d \in 0..1 : Create(c, b, d)
    \/ \E c \in Callers, id \in TaskIds : Retrieve(c, id)
    \/ \E c \in Callers, id \in TaskIds, b \in Bodies, p \in BOOLEAN : Update(c, id, b, p)
    \/ \E c \in Callers, id \in TaskIds : Destroy(c, id)
    \/ \E id \in TaskIds : StrTask(id)

Spec == Init /\ [][Next]_vars

(* The codec: every request body through CREATE and UPDATE, one clock value. *)
NextCodec ==
    \/ CreateUser
    \/ \E c \in Callers, b \in Bodies : Create(c, b, 0)
    \/ \E c \in Callers, id \in TaskIds, b \in Bodies, p \in BOOLEAN : Update(c, id, b, p)
    \/ \E id \in TaskIds : StrTask(id)

SpecCodec == Init /\ [][NextCodec]_vars

(* Access and references: every endpoint, every creator and assignee, user  *)
(* deletion, one clock value.                                                *)
RefBodies == {MinimalBody, ReadOnlyBody}

NextRef ==
    \/ CreateUser
    \/ \E u \in 1..MaxUsers : DeleteUser(u)
    \/ \E id \in TaskIds, u \in 0..MaxUsers : SaveAssigned(id, u)
    \/ \E c \in Callers : List(c)
    \/ \E c \in Callers, b \in RefBodies : Create(c, b, 0)
    \/ \E c \in Callers, id \in TaskIds : Retrieve(c, id)
    \/ \E c \in Callers, id \in TaskIds, b \in RefBodies : Update(c, id, b, TRUE)
    \/ \E c \in Callers, id \in TaskIds : Destroy(c, id)

SpecRef == Init /\ [][NextRef]_vars

(* Timestamps: the clock advances while one client drives the endpoints. *)
TimeCallers == {1}
TimeBodies == {MinimalBody, ReadOnlyBody}

NextTime ==
    \/ Tick
    \/ CreateUser
    \/ \E u \in 1..MaxUsers : DeleteUser(u)
    \/ \E id \in TaskIds, u \in 0..MaxUsers : SaveAssigned(id, u)
    \/ \E c \in TimeCallers : List(c)
    \/ \E c \in TimeCallers, d \in 0..1 : Create(c, MinimalBody, d)
    \/ \E c \in TimeCallers, id \in TaskIds, b \in TimeBodies : Update(c, id, b, TRUE)
    \/ \E c \in TimeCallers, id \in TaskIds : Destroy(c, id)

SpecTime == Init /\ [][NextTime]_vars

(* ---------------- claims ---------------- *)
Unauthenticated(c) == c = Anonymous \/ c \notin users

TextFields == {"title", "description"}
Stripped(f, x) == IF f \in TextFields THEN RStrip(LStrip(x)) ELSE x

CreatedStep == resp'.op = "CREATE" /\ resp'.status = "Created"
UpdatedStep == resp'.op = "UPDATE" /\ resp'.status = "OK"

(* C1 (as stated): a successful CREATE by caller U stores and returns a Task  *)
(* with created_by = U whatever the body says, and stores the supplied title, *)
(* description, status and priority exactly as given.                         *)
C1_StoredAsGiven ==
    [][CreatedStep =>
          \A c \in Callers, b \in Bodies :
              Create(c, b, 0) =>
                  LET t == tasks'[nextTaskId]
                  IN /\ t.created_by = c
                     /\ resp'.body = <<Encode(t)>>
                     /\ \A f \in (DOMAIN b) \cap {"title", "description", "status", "priority"} :
                            t[f] = b[f]]_vars

(* C1 (amended): a successful CREATE by caller U stores and returns a Task    *)
(* with created_by = U whatever the body says; status and priority are stored *)
(* as given, title and description with surrounding whitespace stripped.      *)
C1_CreatedByCaller ==
    [][CreatedStep =>
          \A c \in Callers, b \in Bodies :
              Create(c, b, 0) =>
                  LET t == tasks'[nextTaskId]
                  IN /\ c \in users
                     /\ t.created_by = c
                     /\ resp'.body = <<Encode(t)>>
                     /\ resp'.body[1].created_by = <<[id |-> c]>>
                     /\ \A f \in (DOMAIN b) \cap {"title", "description", "status", "priority"} :
                            t[f] = Stripped(f, b[f])]_vars

C1_Witness ==
    /\ resp.op = "CREATE" /\ resp.status = "Created"
    /\ resp.body[1].created_by = <<[id |-> 1]>>
    /\ resp.body[1].title = <<"T">>
    /\ resp.body[1].id \in DOMAIN tasks
    /\ tasks[resp.body[1].id].created_by = 1

EndpointOps == {"LIST", "CREATE", "GET", "UPDATE", "DELETE"}

(* C2: LIST, CREATE, GET, UPDATE and DELETE by an unauthenticated caller all  *)
(* fail with Unauthorized, whatever the id and body, and a request answered   *)
(* Unauthorized leaves the stored Tasks exactly as they were.                 *)
C2_UnauthorizedNoEffect ==
    /\ [](\A c \in Callers :
             Unauthenticated(c) =>
                 /\ ListStatus(c) = "Unauthorized"
                 /\ \A b \in Bodies : CreateStatus(c, b) = "Unauthorized"
                 /\ \A id \in TaskIds :
                        /\ RetrieveStatus(c, id) = "Unauthorized"
                        /\ DestroyStatus(c, id) = "Unauthorized"
                        /\ \A b \in Bodies, p \in BOOLEAN :
                               UpdateStatus(c, id, b, p) = "Unauthorized")
    /\ [][(resp'.op \in EndpointOps /\ resp'.status = "Unauthorized") =>
              (tasks' = tasks /\ nextTaskId' = nextTaskId /\ resp'.body = <<>>)]_vars

C2_Witness ==
    /\ resp.op = "CREATE" /\ resp.status = "Unauthorized"
    /\ users # {}
    /\ DOMAIN tasks = {1}
    /\ nextTaskId = 2

(* C3: deleting user U removes exactly the Tasks created by U and clears      *)
(* assigned_to on the remaining Tasks assigned to U, changing nothing else;   *)
(* so every stored Task's created_by is an existing user and its assigned_to  *)
(* is absent or an existing user.                                             *)
C3_UserDeleteCascade ==
    /\ [](\A i \in DOMAIN tasks :
             /\ tasks[i].created_by \in users
             /\ tasks[i].assigned_to \in users \cup {NoUser})
    /\ [][\A u \in users \ users' :
              /\ DOMAIN tasks' = {i \in DOMAIN tasks : tasks[i].created_by # u}
              /\ \A i \in DOMAIN tasks' :
                     IF tasks[i].assigned_to = u
                     THEN tasks'[i] = [tasks[i] EXCEPT !.assigned_to = NoUser]
                     ELSE tasks'[i] = tasks[i]]_vars

C3_Witness ==
    /\ resp.op = "delete_user"
    /\ users = {1}
    /\ nextTaskId = 3
    /\ DOMAIN tasks = {1}
    /\ tasks[1].assigned_to = NoUser
    /\ tasks[1].created_by = 1

BadEnum(b) ==
    \/ "status" \in DOMAIN b /\ b.status \notin {TODO, IN_PROGRESS, DONE}
    \/ "priority" \in DOMAIN b /\ b.priority \notin {LOW, MEDIUM, HIGH}

(* C4: a CREATE or UPDATE that reaches the decoder (authenticated caller, and *)
(* for UPDATE an existing id) with a status or priority outside its           *)
(* enumerated set fails with ValidationError; a ValidationError leaves the    *)
(* store unchanged; every stored Task has status and priority inside their   *)
(* sets; a CREATE that omits them stores status TODO and priority MEDIUM.     *)
C4_EnumValidation ==
    /\ [](\A c \in users, b \in Bodies :
             BadEnum(b) =>
                 /\ CreateStatus(c, b) = "ValidationError"
                 /\ \A id \in DOMAIN tasks, p \in BOOLEAN :
                        UpdateStatus(c, id, b, p) = "ValidationError")
    /\ [](\A i \in DOMAIN tasks :
             /\ tasks[i].status \in {TODO, IN_PROGRESS, DONE}
             /\ tasks[i].priority \in {LOW, MEDIUM, HIGH})
    /\ [][resp'.status = "ValidationError" =>
              (tasks' = tasks /\ nextTaskId' = nextTaskId)]_vars
    /\ [][CreatedStep =>
              \A c \in Callers, b \in Bodies :
                  Create(c, b, 0) =>
                      /\ ("status" \notin DOMAIN b => tasks'[nextTaskId].status = TODO)
                      /\ ("priority" \notin DOMAIN b => tasks'[nextTaskId].priority = MEDIUM)]_vars

C4_Witness ==
    /\ resp.op = "UPDATE" /\ resp.status = "ValidationError"
    /\ resp.body = <<{"status"}>>
    /\ 1 \in DOMAIN tasks
    /\ tasks[1].status = TODO /\ tasks[1].priority = MEDIUM

(* C5: an authenticated UPDATE that supplies a valid value for any of title,  *)
(* description, status, priority, assigned_to or due_date leaves the stored   *)
(* Task holding the supplied value.                                           *)
C5_AllFieldsWritable ==
    [][UpdatedStep =>
          \A c \in Callers, b \in Bodies, p \in BOOLEAN :
              LET id == resp'.body[1].id
              IN Update(c, id, b, p) =>
                     \A f \in (DOMAIN b) \cap {"title", "description", "status", "priority",
                                                "assigned_to", "due_date"} :
                         tasks'[id][f] = b[f]]_vars

(* C6: a successful LIST returns every stored Task exactly once, newest       *)
(* created_at first, and an UPDATE leaves the admissible listing orders as    *)
(* they were.                                                                 *)
C6_ListOrder ==
    /\ []((resp.op = "LIST" /\ resp.status = "OK") =>
             LET body == resp.body
             IN /\ Len(body) = Cardinality(DOMAIN tasks)
                /\ \A i \in DOMAIN tasks :
                       Cardinality({k \in 1..Len(body) : body[k].id = i}) = 1
                /\ \A k \in 1..Len(body) :
                       /\ body[k].id \in DOMAIN tasks
                       /\ body[k] = Encode(tasks[body[k].id])
                /\ \A k \in 1..Len(body), l \in 1..Len(body) :
                       k < l => body[k].created_at >= body[l].created_at)
    /\ [][UpdatedStep =>
              /\ Orderings(tasks') = Orderings(tasks)
              /\ \A i \in DOMAIN tasks, j \in DOMAIN tasks :
                     (tasks[i].created_at > tasks[j].created_at)
                         <=> (tasks'[i].created_at > tasks'[j].created_at)]_vars

C6_Witness ==
    /\ resp.op = "LIST" /\ resp.status = "OK"
    /\ Len(resp.body) = 2
    /\ resp.body[1].created_at > resp.body[2].created_at
    /\ resp.body[2].updated_at > resp.body[2].created_at

(* C7: for an authenticated caller, GET, UPDATE and DELETE on an id with no   *)
(* stored Task return NotFound, and NotFound leaves the store unchanged; a    *)
(* successful DELETE(id) removes that Task and no other, and a removed id     *)
(* never names a Task again, so a second DELETE of it returns NotFound.       *)
C7_NotFound ==
    /\ [](\A c \in users, id \in TaskIds \ DOMAIN tasks :
             /\ RetrieveStatus(c, id) = "NotFound"
             /\ DestroyStatus(c, id) = "NotFound"
             /\ \A b \in Bodies, p \in BOOLEAN : UpdateStatus(c, id, b, p) = "NotFound")
    /\ [][resp'.status = "NotFound" => tasks' = tasks]_vars
    /\ [][(resp'.op = "DELETE" /\ resp'.status = "NoContent") =>
              \A c \in Callers, id \in TaskIds :
                  Destroy(c, id) =>
                      /\ id \in DOMAIN tasks
                      /\ DOMAIN tasks' = (DOMAIN tasks) \ {id}
                      /\ \A i \in DOMAIN tasks' : tasks'[i] = tasks[i]]_vars
    /\ [][\A id \in TaskIds :
              (id < nextTaskId /\ id \notin DOMAIN tasks) => id \notin DOMAIN tasks']_vars

C7_Witness ==
    /\ resp.op = "DELETE" /\ resp.status = "NotFound"
    /\ nextTaskId = 3
    /\ DOMAIN tasks = {2}

ReadOnlyFields == {"id", "created_by", "created_at", "updated_at"}
WithoutReadOnly(b) == [f \in (DOMAIN b) \ ReadOnlyFields |-> b[f]]

(* C8: an UPDATE never changes a Task's id, created_by or created_at whatever *)
(* the body holds; created_by, created_at and updated_at in the body do not   *)
(* change the outcome of the request and are not stored; fields the body does *)
(* not name keep their values; no other Task changes.                         *)
C8_UpdateFrame ==
    /\ [](\A c \in users, id \in DOMAIN tasks, b \in Bodies, p \in BOOLEAN :
             /\ UpdateStatus(c, id, b, p) = UpdateStatus(c, id, WithoutReadOnly(b), p)
             /\ UpdateStatus(c, id, ReadOnlyBody, TRUE) = "OK"
             /\ UpdateStatus(c, id, b, p) = "OK" =>
                    LET t == UpdatedTask(tasks[id], b, clock)
                    IN /\ t = UpdatedTask(tasks[id], WithoutReadOnly(b), clock)
                       /\ \A f \in (DOMAIN t) \ ((DOMAIN b) \cup {"updated_at"}) :
                              t[f] = tasks[id][f]
                       /\ \A f \in {"id", "created_by", "created_at"} : t[f] = tasks[id][f]
                       /\ t.updated_at = clock)
    /\ [][resp'.op = "UPDATE" =>
              /\ DOMAIN tasks' = DOMAIN tasks
              /\ \A i \in DOMAIN tasks :
                     /\ tasks'[i].id = tasks[i].id
                     /\ tasks'[i].created_by = tasks[i].created_by
                     /\ tasks'[i].created_at = tasks[i].created_at
                     /\ (resp'.status # "OK" \/ i # resp'.body[1].id) => tasks'[i] = tasks[i]]_vars

C8_Witness ==
    /\ resp.op = "UPDATE" /\ resp.status = "OK"
    /\ resp.body[1].title = <<"T">>
    /\ resp.body[1].created_by = <<[id |-> 1]>>
    /\ resp.body[1].created_at = 0
    /\ resp.body[1].id = 1
    /\ DOMAIN tasks = {1, 2}

TaskChanged(i) == i \in DOMAIN tasks /\ i \in DOMAIN tasks' /\ tasks'[i] # tasks[i]

(* C9 (as stated): updated_at is refreshed on every mutation of a Task.       *)
C9_EveryMutationRefreshes ==
    [][\A i \in TaskIds : TaskChanged(i) => tasks'[i].updated_at = clock']_vars

(* C9 (amended): CREATE stamps created_at and then updated_at with the clock  *)
(* as read during the call, every successful UPDATE and every save of a Task  *)
(* sets updated_at to the time of that save, clearing assigned_to on user     *)
(* deletion leaves updated_at as it was, and always created_at <= updated_at. *)
C9_UpdatedAtRefreshed ==
    /\ [](\A i \in DOMAIN tasks :
             /\ tasks[i].created_at <= tasks[i].updated_at
             /\ tasks[i].updated_at <= clock)
    /\ [][CreatedStep =>
              LET t == tasks'[nextTaskId]
              IN /\ t.created_at = clock
                 /\ t.updated_at = clock'
                 /\ resp'.body[1].created_at = clock
                 /\ resp'.body[1].updated_at = clock']_vars
    /\ [][UpdatedStep =>
              /\ resp'.body[1].updated_at = clock
              /\ tasks'[resp'.body[1].id].updated_at = clock]_vars
    /\ [][\A i \in TaskIds :
              TaskChanged(i) =>
                  IF resp'.op = "delete_user"
                  THEN tasks'[i] = [tasks[i] EXCEPT !.assigned_to = NoUser]
                  ELSE tasks'[i].updated_at = clock']_vars

C9_Witness ==
    /\ resp.op = "UPDATE" /\ resp.status = "OK"
    /\ resp.body[1].created_at = 0
    /\ resp.body[1].updated_at = 1
    /\ clock = 1

MyTaskInProgress ==
    <<"M", "y", " ", "T", "a", "s", "k", " ", "(",
      "I", "N", "_", "P", "R", "O", "G", "R", "E", "S", "S", ")">>

IsTitleStatusFormat(s, title, status) ==
    /\ Len(s) = Len(title) + Len(status) + 3
    /\ SubSeq(s, 1, Len(title)) = title
    /\ s[Len(title) + 1] = " "
    /\ s[Len(title) + 2] = "("
    /\ SubSeq(s, Len(title) + 3, Len(title) + 2 + Len(status)) = status
    /\ s[Len(s)] = ")"

(* C10: in every state the string representation of every stored Task is its *)
(* current title, a space, and its current status in parentheses; "My Task"   *)
(* with status IN_PROGRESS reads "My Task (IN_PROGRESS)".                     *)
C10_StrFormat ==
    /\ \A i \in DOMAIN tasks :
           /\ IsTitleStatusFormat(TaskStr(tasks[i]), tasks[i].title, tasks[i].status)
           /\ (tasks[i].title = MyTask /\ tasks[i].status = IN_PROGRESS)
                  => TaskStr(tasks[i]) = MyTaskInProgress
    /\ resp.op = "STR" =>
           IsTitleStatusFormat(resp.body[1].str, tasks[resp.body[1].id].title,
                               tasks[resp.body[1].id].status)

C10_Witness ==
    /\ resp.op = "STR"
    /\ resp.body[1].str = MyTaskInProgress
====
